---- MODULE Spec2Model ----
(***************************************************************************)
(* Evil hangman (src/src/hangman.rs, src/src/main.rs).                     *)
(*                                                                         *)
(* A word is a sequence of one-letter strings, a GuessSignature a natural  *)
(* number (bit 0 = first letter), a bucket map a function from signatures  *)
(* to word sequences.  An f64 is an exact rational <<num, den>> with       *)
(* den > 0, extended with +inf = <<1, 0>>; the parameters and draws used   *)
(* here are dyadic, so the f64 arithmetic of the code is exact on them.    *)
(***************************************************************************)
EXTENDS Integers, Sequences, FiniteSets, TLC

\* ------------------------------------------------------------------ bounds
\* Longest word and largest letter count of a session.
MaxLen == 3
\* Most guesses in a persisted history.
MaxGuesses == 3
\* A generator draw is u = U / 2^DrawBits, U in 0 .. 2^DrawBits - 1.
DrawBits == 2
\* Number of per-process hash keys of the bucket map (RandomState).
HashKeys == 2

\* Letters a guess can be (read_guess upper-cases one ASCII letter).
Letters == {"A", "B", "C"}

\* ------------------------------------------------------------- arithmetic
RECURSIVE Pow(_, _)
Pow(b, e) == IF e = 0 THEN 1 ELSE b * Pow(b, e - 1)

RECURSIVE Gcd(_, _)
Gcd(a, b) == IF b = 0 THEN a ELSE Gcd(b, a % b)

Abs(a) == IF a < 0 THEN -a ELSE a

\* A rational in lowest terms (den > 0); +inf is left as it is.
F64Norm(x) ==
    IF x[2] = 0 THEN x
    ELSE LET g == Gcd(Abs(x[1]), x[2])
         IN  IF g = 0 THEN <<0, 1>> ELSE <<x[1] \div g, x[2] \div g>>

F64Add(x, y) == F64Norm(<<x[1] * y[2] + y[1] * x[2], x[2] * y[2]>>)
F64Sub(x, y) == F64Norm(<<x[1] * y[2] - y[1] * x[2], x[2] * y[2]>>)
F64Mul(x, y) == F64Norm(<<x[1] * y[1], x[2] * y[2]>>)
\* x / y for finite x and y > 0 or y = +inf (x / inf = 0).
F64Div(x, y) == F64Norm(<<x[1] * y[2], x[2] * y[1]>>)
\* x.powf(k) for an integral k >= 0 (inf^0 = 1, as IEEE pow has it).
F64PowI(x, k) == <<Pow(x[1], k), Pow(x[2], k)>>
F64Less(x, y) == x[1] * y[2] < y[1] * x[2]
F64Eq(x, y) == x[1] * y[2] = y[1] * x[2]

\* ------------------------------------------------------- signature codec
RECURSIVE word_signature_loop(_, _, _, _)
word_signature_loop(word, guess, i, sig) ==
    IF i = 0 THEN sig
    ELSE word_signature_loop(word, guess, i - 1,
                             sig * 2 + (IF word[i] = guess THEN 1 ELSE 0))

\* Mutant: the letters taken first to last (no rev()).
RECURSIVE word_signature_forward_loop(_, _, _, _)
word_signature_forward_loop(word, guess, i, sig) ==
    IF i > Len(word) THEN sig
    ELSE word_signature_forward_loop(word, guess, i + 1,
                             sig * 2 + (IF word[i] = guess THEN 1 ELSE 0))

word_signature_forward(word, guess) ==
    word_signature_forward_loop(word, guess, 1, 0)

\* for letter in word.chars().rev() { sig *= 2; if letter == guess {sig += 1} }
word_signature(word, guess) == word_signature_loop(word, guess, Len(word), 0)

\* The width of GuessSignature (u64).
SigWidth == 64

\* word_signature at the width of u64, the signature held as the set of its
\* set bits.  sig *= 2 overflows when the top bit is set: a build with
\* overflow checks (the dev profile) panics there, a build without them (the
\* release profile) wraps and carries on.  sig += 1 follows a doubling and
\* cannot overflow.
RECURSIVE word_signature_u64_loop(_, _, _, _, _)
word_signature_u64_loop(word, guess, i, sig, overflow_checks) ==
    IF i = 0 THEN [panicked |-> FALSE, sig |-> sig]
    ELSE IF (SigWidth - 1) \in sig /\ overflow_checks
    THEN [panicked |-> TRUE, sig |-> sig]
    ELSE LET doubled == {b + 1 : b \in sig \ {SigWidth - 1}}
         IN  word_signature_u64_loop(word, guess, i - 1,
                 IF word[i] = guess THEN doubled \cup {0} ELSE doubled,
                 overflow_checks)

word_signature_u64(word, guess, overflow_checks) ==
    word_signature_u64_loop(word, guess, Len(word), {}, overflow_checks)

\* Mutant: the bits read out most significant first.
RECURSIVE decode_signature_msb_first(_, _)
decode_signature_msb_first(sig, num_letters) ==
    IF num_letters = 0 THEN << >>
    ELSE LET m == sig % 2
         IN  decode_signature_msb_first((sig - m) \div 2, num_letters - 1)
                \o <<m = 1>>

RECURSIVE decode_signature(_, _)
decode_signature(sig, num_letters) ==
    IF num_letters = 0 THEN << >>
    ELSE LET m == sig % 2
         IN  <<m = 1>> \o decode_signature((sig - m) \div 2, num_letters - 1)

\* Mutant: the pattern rebuilt from the signature alone, prev_info dropped.
display_signature_forgetful(sig, prev_info, guess) ==
    LET num_letters == Len(prev_info)
        bits == decode_signature(sig, num_letters)
    IN  [i \in 1..num_letters |-> IF bits[i] THEN guess ELSE "_"]

display_signature(sig, prev_info, guess) ==
    LET num_letters == Len(prev_info)
        bits == decode_signature(sig, num_letters)
    IN  [i \in 1..num_letters |-> IF bits[i] THEN guess ELSE prev_info[i]]

RECURSIVE count_matches(_)
count_matches(sig) == IF sig = 0 THEN 0 ELSE (sig % 2) + count_matches(sig \div 2)

\* ---------------------------------------------------------- partitioner
\* Mutant: a word is put at the front of its bucket.
RECURSIVE guess_buckets_loop_prepend(_, _, _, _)
guess_buckets_loop_prepend(word_list, guess, i, buckets) ==
    IF i > Len(word_list) THEN buckets
    ELSE LET word == word_list[i]
             sig == word_signature(word, guess)
         IN  guess_buckets_loop_prepend(word_list, guess, i + 1,
                 IF sig \in DOMAIN buckets
                 THEN [buckets EXCEPT ![sig] = <<word>> \o @]
                 ELSE buckets @@ (sig :> <<word>>))

\* Mutant: a word whose signature is already a key replaces the bucket.
RECURSIVE guess_buckets_loop_overwrite(_, _, _, _)
guess_buckets_loop_overwrite(word_list, guess, i, buckets) ==
    IF i > Len(word_list) THEN buckets
    ELSE LET word == word_list[i]
             sig == word_signature(word, guess)
         IN  guess_buckets_loop_overwrite(word_list, guess, i + 1,
                 IF sig \in DOMAIN buckets
                 THEN [buckets EXCEPT ![sig] = <<word>>]
                 ELSE buckets @@ (sig :> <<word>>))

RECURSIVE guess_buckets_loop(_, _, _, _)
guess_buckets_loop(word_list, guess, i, buckets) ==
    IF i > Len(word_list) THEN buckets
    ELSE LET word == word_list[i]
             sig == word_signature(word, guess)
         IN  guess_buckets_loop(word_list, guess, i + 1,
                 IF sig \in DOMAIN buckets
                 THEN [buckets EXCEPT ![sig] = Append(@, word)]
                 ELSE buckets @@ (sig :> <<word>>))

guess_buckets(word_list, guess) == guess_buckets_loop(word_list, guess, 1, << >>)

\* ------------------------------------------------------- bucket iteration
RECURSIVE Ascending(_)
Ascending(keys) ==
    IF keys = {} THEN << >>
    ELSE LET lo == CHOOSE a \in keys : \A b \in keys : a <= b
         IN  <<lo>> \o Ascending(keys \ {lo})

Rotate(s, r) ==
    [i \in 1..Len(s) |-> s[((i - 1 + r) % Len(s)) + 1]]

Reverse(s) == [i \in 1..Len(s) |-> s[Len(s) + 1 - i]]

\* The order in which `for (sig, bucket) in buckets` meets the keys of a
\* HashMap built with hash key k: any order, fixed by k and the key set.
IterOrder(keys, k) ==
    IF keys = {} THEN << >>
    ELSE LET asc == Ascending(keys)
         IN  IF k % 2 = 0 THEN Rotate(asc, k \div 2)
             ELSE Rotate(Reverse(asc), k \div 2)

\* --------------------------------------------------------- outcome policy
\* Mutant: the options compared for a descending sort.
OptionAfter(a, b) ==
    \/ F64Less(b[1], a[1])
    \/ F64Eq(a[1], b[1]) /\ b[2] < a[2]

\* An option is <<weight, signature>>.  (w1, x1) before (w2, x2):
\* w1.total_cmp(w2), then x1.cmp(x2).
OptionBefore(a, b) ==
    \/ F64Less(a[1], b[1])
    \/ F64Eq(a[1], b[1]) /\ a[2] < b[2]

RECURSIVE InsertSorted(_, _)
InsertSorted(sorted, x) ==
    IF sorted = << >> THEN <<x>>
    ELSE IF OptionBefore(x, Head(sorted)) THEN <<x>> \o sorted
    ELSE <<Head(sorted)>> \o InsertSorted(Tail(sorted), x)

RECURSIVE sort_by_loop(_, _, _)
sort_by_loop(options, i, sorted) ==
    IF i > Len(options) THEN sorted
    ELSE sort_by_loop(options, i + 1, InsertSorted(sorted, options[i]))

\* Mutant: the options left in the order the map was iterated in.
sort_by_skipped(options) == options

\* options.sort_by(...): a stable sort into ascending (weight, value) order.
sort_by(options) == sort_by_loop(options, 1, << >>)

RECURSIVE total_weight(_)
total_weight(options) ==
    IF options = << >> THEN <<0, 1>>
    ELSE F64Add(Head(options)[1], total_weight(Tail(options)))

\* for (w, x) in options { dart -= w; if dart < 0.0 { return x } }
\* <<TRUE, x>> when the walk returns x, <<FALSE, dart>> when it runs out.
RECURSIVE dart_walk(_, _, _)
dart_walk(options, i, dart) ==
    IF i > Len(options) THEN <<FALSE, dart>>
    ELSE LET d == F64Sub(dart, options[i][1])
         IN  IF d[1] < 0 THEN <<TRUE, options[i][2]>>
             ELSE dart_walk(options, i + 1, d)

\* The draw u = U / 2^DrawBits of rng.random::<f64>().
Draw(U) == <<U, Pow(2, DrawBits)>>

\* Mutant: after the loop the default signature is returned, not the last.
weighted_choice_default(options, U) ==
    LET sorted == sort_by(options)
        total == total_weight(sorted)
        dart == F64Mul(Draw(U), total)
        walk == dart_walk(sorted, 1, dart)
    IN  IF walk[1] THEN [panicked |-> FALSE, value |-> walk[2], fallback |-> FALSE]
        ELSE IF sorted = << >>
             THEN [panicked |-> TRUE, value |-> 0, fallback |-> TRUE]
             ELSE [panicked |-> FALSE, value |-> 0, fallback |-> TRUE]

\* weighted_choice(options, rng) with the generator's next draw U:
\* [panicked, value, fallback]; panicked is options.last().unwrap() on an
\* empty list, fallback the return after the loop.
weighted_choice(options, U) ==
    LET sorted == sort_by(options)
        total == total_weight(sorted)
        dart == F64Mul(Draw(U), total)
        walk == dart_walk(sorted, 1, dart)
    IN  IF walk[1] THEN [panicked |-> FALSE, value |-> walk[2], fallback |-> FALSE]
        ELSE IF sorted = << >>
             THEN [panicked |-> TRUE, value |-> 0, fallback |-> TRUE]
             ELSE [panicked |-> FALSE, value |-> sorted[Len(sorted)][2],
                   fallback |-> TRUE]

\* (bucket_size as f64).powf(evil_exponent) / evil_factor.powf(num_correct)
bucket_weight(sig, bucket, settings) ==
    LET num_correct == count_matches(sig)
        bucket_size == Len(bucket)
    IN  F64Div(<<Pow(bucket_size, settings.evil_exponent), 1>>,
               F64PowI(settings.evil_factor, num_correct))

\* The options vector, pushed in the map's iteration order (hash key k).
bucket_options(buckets, settings, k) ==
    LET order == IterOrder(DOMAIN buckets, k)
    IN  [i \in 1..Len(order) |->
            <<bucket_weight(order[i], buckets[order[i]], settings), order[i]>>]

choose_guess_outcome(buckets, settings, U, k) ==
    weighted_choice(bucket_options(buckets, settings, k), U)

\* do_guess: [panicked, buckets, guess_result, fallback].
do_guess(guess, word_list, settings, U, k) ==
    LET buckets == guess_buckets(word_list, guess)
        choice == choose_guess_outcome(buckets, settings, U, k)
    IN  [panicked |-> choice.panicked, buckets |-> buckets,
         guess_result |-> choice.value, fallback |-> choice.fallback]

\* -------------------------------------------------------------- generator
RECURSIVE BitXor(_, _)
BitXor(a, b) ==
    IF a = 0 THEN b
    ELSE IF b = 0 THEN a
    ELSE ((a + b) % 2) + 2 * BitXor(a \div 2, b \div 2)

\* ChaCha12Rng::seed_from_u64(seed): a generator at position 0.
seed_from_u64(seed) == [seed |-> seed, pos |-> 0]

\* The draw a generator yields at its position: a fixed function of the
\* seed and the position, standing for the ChaCha12 key stream.
NextDraw(rng) ==
    ((rng.seed + 1) * (rng.pos + 3) + (rng.pos * rng.pos) \div 2
        + rng.seed \div 2) % Pow(2, DrawBits)

Advance(rng) == [rng EXCEPT !.pos = @ + 1]

\* ---------------------------------------------------------------- inputs
\* Word sources, as read_word_list leaves them: upper case, sorted, no
\* duplicates, every length mixed.
SourceA ==
    << <<"A">>, <<"A", "B">>, <<"A", "B", "C">>, <<"B", "A">>,
       <<"B", "A", "C">>, <<"B", "B">>, <<"C", "A", "B">> >>

SourceB ==
    << <<"A", "A">>, <<"A", "B", "A">>,
       <<"A", "B", "C", "A", "A", "B", "C", "C", "B", "A">>,
       <<"B", "A", "B">>, <<"B", "B", "A">>, <<"C", "A">>,
       <<"C", "C", "C">> >>

WordSources == {SourceA, SourceB}

\* The settings a settings file can hold: evil_factor = inf is a float of
\* the file format, and makes every bucket with a matched letter weigh 0.
SettingsFiles ==
    { [evil_exponent |-> 1, evil_factor |-> <<2, 1>>],
      [evil_exponent |-> 2, evil_factor |-> <<1, 1>>],
      [evil_exponent |-> 1, evil_factor |-> <<1, 0>>] }

\* The seeds the player types and the salts of the salt file (two bits each).
Seeds == {0, 1, 2, 3}
Salts == {1, 3}
LetterCounts == 1..MaxLen

\* ----------------------------------------------------------------- state
VARIABLES
    word_source,    \* the word list main hands to play_game
    settings,       \* the Settings record
    rng_salt,       \* the salt of the salt file
    history_file,   \* the history file: << >> when absent, else <<History>>
    pc,             \* "NotStarted", "AwaitingGuess", "Won", "Panicked"
    history,        \* play_game's History
    word_list,      \* the candidate set
    word_info,      \* the reveal pattern
    rng,            \* the generator
    guess_result,   \* the signature the last do_guess chose
    fallback,       \* the last weighted_choice returned after its loop
    replayed,       \* guesses this process resolved in replay_history
                    \* (recorded under SpecTracked only)
    call,           \* a function called on its own: its name and arguments
    ret             \* what that call returned

vars == <<word_source, settings, rng_salt, history_file, pc, history,
          word_list, word_info, rng, guess_result, fallback, replayed, call, ret>>

\* ------------------------------------------------------------ persistence
\* Mutant: the record is written as it was before the last push.
write_to_file_before_push(h) ==
    [rng_seed |-> h.rng_seed, letter_count |-> h.letter_count,
     guesses |-> IF h.guesses = << >> THEN << >>
                 ELSE SubSeq(h.guesses, 1, Len(h.guesses) - 1)]

\* History::write_to_file: the record the file then holds.
write_to_file(h) ==
    [rng_seed |-> h.rng_seed, letter_count |-> h.letter_count,
     guesses |-> h.guesses]

save_history(h) == <<write_to_file(h)>>

\* History::from_file: None (<< >>) when the file cannot be read.
from_file(file) ==
    IF file = << >> THEN << >>
    ELSE <<[rng_seed |-> file[1].rng_seed,
            letter_count |-> file[1].letter_count,
            guesses |-> file[1].guesses]>>

\* initialize_game with the seed and the letter count the player typed.
initialize_game(seed, letters) ==
    [rng_seed |-> seed, letter_count |-> letters, guesses |-> << >>]

\* ----------------------------------------------------------------- replay
Retain(words, letter_count) ==
    SelectSeq(words, LAMBDA word : Len(word) = letter_count)

Blank(letter_count) == [i \in 1..letter_count |-> "_"]

Contains(info, c) == \E i \in 1..Len(info) : info[i] = c

\* Mutant: every replayed guess draws from a copy of the generator, which
\* is left where it was.
RECURSIVE replay_loop_copied_rng(_, _, _, _)
replay_loop_copied_rng(st, h, sett, k0) ==
    IF st.panicked \/ st.n >= Len(h.guesses) THEN st
    ELSE LET guess == h.guesses[st.n + 1]
             r == do_guess(guess, st.word_list, sett, NextDraw(st.rng),
                           (k0 + st.n) % HashKeys)
         IN  IF r.panicked
             THEN [st EXCEPT !.panicked = TRUE]
             ELSE replay_loop_copied_rng(
                    [n |-> st.n + 1,
                     word_list |-> r.buckets[r.guess_result],
                     word_info |-> display_signature(r.guess_result,
                                                     st.word_info, guess),
                     rng |-> st.rng,
                     guess_result |-> r.guess_result,
                     fallback |-> r.fallback,
                     panicked |-> FALSE],
                    h, sett, k0)

\* One pass of the loop of replay_history over guess number n + 1; k0 is
\* the hash key of the process, each new bucket map taking the next key.
RECURSIVE replay_loop(_, _, _, _)
replay_loop(st, h, sett, k0) ==
    IF st.panicked \/ st.n >= Len(h.guesses) THEN st
    ELSE LET guess == h.guesses[st.n + 1]
             r == do_guess(guess, st.word_list, sett, NextDraw(st.rng),
                           (k0 + st.n) % HashKeys)
         IN  IF r.panicked
             THEN [st EXCEPT !.panicked = TRUE, !.rng = Advance(st.rng)]
             ELSE replay_loop(
                    [n |-> st.n + 1,
                     word_list |-> r.buckets[r.guess_result],
                     word_info |-> display_signature(r.guess_result,
                                                     st.word_info, guess),
                     rng |-> Advance(st.rng),
                     guess_result |-> r.guess_result,
                     fallback |-> r.fallback,
                     panicked |-> FALSE],
                    h, sett, k0)

replay_history(words, h, sett, rng0, k0) ==
    replay_loop([n |-> 0,
                 word_list |-> Retain(words, h.letter_count),
                 word_info |-> Blank(h.letter_count),
                 rng |-> rng0,
                 guess_result |-> 0,
                 fallback |-> FALSE,
                 panicked |-> FALSE],
                h, sett, k0)

\* ------------------------------------------------------------- live play
\* Mutant: the candidate list is not replaced by the chosen bucket.
play_game_loop_stale_list(st, guess, sett, k) ==
    LET r == do_guess(guess, st.word_list, sett, NextDraw(st.rng), k)
    IN  IF r.panicked
        THEN [st EXCEPT !.panicked = TRUE, !.rng = Advance(st.rng)]
        ELSE [history |-> [st.history EXCEPT !.guesses = Append(@, guess)],
              word_list |-> st.word_list,
              word_info |-> display_signature(r.guess_result, st.word_info,
                                              guess),
              rng |-> Advance(st.rng),
              guess_result |-> r.guess_result,
              fallback |-> r.fallback,
              panicked |-> FALSE]

\* Mutant: the guess is pushed onto the history before do_guess runs.
play_game_loop_push_first(st, guess, sett, k) ==
    LET r == do_guess(guess, st.word_list, sett, NextDraw(st.rng), k)
        pushed == [st.history EXCEPT !.guesses = Append(@, guess)]
    IN  IF r.panicked
        THEN [st EXCEPT !.panicked = TRUE, !.rng = Advance(st.rng),
                        !.history = pushed]
        ELSE [history |-> pushed,
              word_list |-> r.buckets[r.guess_result],
              word_info |-> display_signature(r.guess_result, st.word_info,
                                              guess),
              rng |-> Advance(st.rng),
              guess_result |-> r.guess_result,
              fallback |-> r.fallback,
              panicked |-> FALSE]

\* The body of the loop of play_game, from do_guess to the last assignment
\* before save_history: the locals before, the locals after.  A panic in
\* do_guess leaves everything but the generator as it was.
play_game_loop(st, guess, sett, k) ==
    LET r == do_guess(guess, st.word_list, sett, NextDraw(st.rng), k)
    IN  IF r.panicked
        THEN [st EXCEPT !.panicked = TRUE, !.rng = Advance(st.rng)]
        ELSE [history |-> [st.history EXCEPT !.guesses = Append(@, guess)],
              word_list |-> r.buckets[r.guess_result],
              word_info |-> display_signature(r.guess_result, st.word_info,
                                              guess),
              rng |-> Advance(st.rng),
              guess_result |-> r.guess_result,
              fallback |-> r.fallback,
              panicked |-> FALSE]

\* ---------------------------------------------------------------- actions
Init ==
    /\ word_source \in WordSources
    /\ settings \in SettingsFiles
    /\ rng_salt \in Salts
    /\ history_file = << >>
    /\ pc = "NotStarted"
    /\ history = initialize_game(0, 0)
    /\ word_list = << >>
    /\ word_info = << >>
    /\ rng = seed_from_u64(0)
    /\ guess_result = 0
    /\ fallback = FALSE
    /\ replayed = 0
    /\ call = << >>
    /\ ret = << >>

\* play_game up to its loop, for the History h it starts from.  With track,
\* replayed records how many guesses replay_history resolved.
Prologue(h, k0, track) ==
    \E st \in {replay_history(word_source, h, settings,
                   seed_from_u64(BitXor(rng_salt, h.rng_seed)), k0)} :
        /\ history' = h
        /\ word_list' = st.word_list
        /\ word_info' = st.word_info
        /\ rng' = st.rng
        /\ guess_result' = st.guess_result
        /\ fallback' = st.fallback
        /\ replayed' = IF track THEN st.n ELSE 0
        /\ IF st.panicked
           THEN pc' = "Panicked" /\ UNCHANGED history_file
           ELSE pc' = "AwaitingGuess" /\ history_file' = save_history(h)
        /\ UNCHANGED <<word_source, settings, rng_salt, call, ret>>

\* The program is run with no history file: initialize_game asks for the
\* seed and the letter count.
NewGame(track) ==
    /\ from_file(history_file) = << >>
    /\ pc = "NotStarted"
    /\ \E seed \in Seeds, letters \in LetterCounts, k0 \in 0..(HashKeys - 1) :
          Prologue(initialize_game(seed, letters), k0, track)

\* The program is run (again, after a win, a panic or a kill) with the
\* history file of an earlier run.
Resume(track) ==
    /\ from_file(history_file) # << >>
    /\ \E k0 \in 0..(HashKeys - 1) :
          Prologue(from_file(history_file)[1], k0, track)

\* The letters guessed so far.
Guessed == {history.guesses[n] : n \in 1..Len(history.guesses)}

\* One pass of the loop of play_game for the guess read_guess returns.
LoopPass(guess) ==
    /\ pc = "AwaitingGuess"
    /\ \E k \in 0..(HashKeys - 1) :
       \E st \in {play_game_loop([history |-> history, word_list |-> word_list,
                                  word_info |-> word_info, rng |-> rng,
                                  guess_result |-> guess_result,
                                  fallback |-> fallback, panicked |-> FALSE],
                                 guess, settings, k)} :
          /\ history' = st.history
          /\ word_list' = st.word_list
          /\ word_info' = st.word_info
          /\ rng' = st.rng
          /\ guess_result' = st.guess_result
          /\ fallback' = st.fallback
          /\ IF st.panicked
             THEN pc' = "Panicked" /\ UNCHANGED history_file
             ELSE /\ history_file' = save_history(st.history)
                  /\ pc' = IF Contains(st.word_info, "_") THEN "AwaitingGuess"
                           ELSE "Won"
    /\ UNCHANGED <<word_source, settings, rng_salt, replayed, call, ret>>

\* The player types a letter, at most MaxGuesses times.
Guess(guess) ==
    /\ Len(history.guesses) < MaxGuesses
    /\ LoopPass(guess)

\* The player types a letter: any letter MaxGuesses times, after that only
\* letters not typed before.
GuessFair(guess) ==
    /\ Len(history.guesses) < MaxGuesses \/ guess \notin Guessed
    /\ LoopPass(guess)

Next ==
    \/ NewGame(FALSE)
    \/ Resume(FALSE)
    \/ \E guess \in Letters : Guess(guess)

\* The same steps, with the replays of the running process recorded.
NextTracked ==
    \/ NewGame(TRUE)
    \/ Resume(TRUE)
    \/ \E guess \in Letters : Guess(guess)

\* The sessions whose settings file holds a finite evil_factor.
InitFinite == Init /\ settings.evil_factor[2] # 0

SpecFinite == InitFinite /\ [][Next]_vars

SpecTracked == Init /\ [][NextTracked]_vars

NextLive ==
    \/ NewGame(FALSE)
    \/ Resume(FALSE)
    \/ \E guess \in Letters : GuessFair(guess)

\* When GuessFair(guess) can take a step: a pass of the loop always changes
\* the variables (the history grows, or the generator draws before a panic).
GuessFairEnabled(guess) ==
    /\ pc = "AwaitingGuess"
    /\ Len(history.guesses) < MaxGuesses \/ guess \notin Guessed

\* Weak fairness of GuessFair(guess), that is WF_vars(GuessFair(guess)) with
\* its ENABLED written out as GuessFairEnabled(guess).
GuessWeaklyFair(guess) ==
    \/ []<>(~GuessFairEnabled(guess))
    \/ []<><<GuessFair(guess)>>_vars

\* The sessions of a player who sooner or later types every letter: while
\* the game waits for a guess, no letter stays untyped forever.
SpecLive ==
    Init /\ [][NextLive]_vars /\ \A guess \in Letters : GuessWeaklyFair(guess)

Spec == Init /\ [][Next]_vars

\* ================================================================= claims
Running == pc \in {"AwaitingGuess", "Won"}

\* The locals of play_game at the top of its loop when it starts from an
\* empty history.
LiveStart(words, seed, letters, salt) ==
    [history |-> initialize_game(seed, letters),
     word_list |-> Retain(words, letters),
     word_info |-> Blank(letters),
     rng |-> seed_from_u64(BitXor(salt, seed)),
     guess_result |-> 0,
     fallback |-> FALSE,
     panicked |-> FALSE]

\* The loop of play_game run over guesses[i..] with no restart in between.
RECURSIVE LivePlay(_, _, _, _)
LivePlay(st, guesses, i, sett) ==
    IF st.panicked \/ i > Len(guesses) THEN st
    ELSE LivePlay(play_game_loop(st, guesses[i], sett, 0), guesses, i + 1, sett)

\* C1: however the session got here (any number of restarts, each replaying
\* the persisted history with a freshly seeded generator, and live guesses
\* in between), the reveal pattern, the candidate list (order included) and
\* the generator are those of playing the whole history live from an empty
\* history, and the generator has made one draw per guess.
C1_ReplayThenLiveEqualsLive ==
    Running =>
        LET ref == LivePlay(LiveStart(word_source, history.rng_seed,
                                      history.letter_count, rng_salt),
                            history.guesses, 1, settings)
        IN  /\ ~ref.panicked
            /\ word_info = ref.word_info
            /\ word_list = ref.word_list
            /\ rng = ref.rng
            /\ rng.pos = Len(history.guesses)

\* A session restarted after at least one guess, which then resolved at
\* least one more guess live, with a choice of buckets behind it.
C1_Witness ==
    /\ Running
    /\ replayed >= 1
    /\ Len(history.guesses) > replayed
    /\ Len(word_list) >= 1
    /\ Len(word_list) < Len(Retain(word_source, history.letter_count))

\* C2: replaying the persisted history gives the same reveal pattern and the
\* same candidate list whatever order each bucket map is iterated in: the
\* replay under every hash key agrees with the replay under key 0.
C2_ReplayOrderIndependent ==
    history_file # << >> =>
        LET h == history_file[1]
            rng0 == seed_from_u64(BitXor(rng_salt, h.rng_seed))
            base == replay_history(word_source, h, settings, rng0, 0)
        IN  \A k0 \in 1..(HashKeys - 1) :
                LET other == replay_history(word_source, h, settings, rng0, k0)
                IN  /\ other.word_info = base.word_info
                    /\ other.word_list = base.word_list
                    /\ other.panicked = base.panicked

\* A replayed history of two guesses or more whose first guess split the
\* candidates into several buckets (so the two orders differ).
C2_Witness ==
    /\ Running
    /\ history_file # << >>
    /\ Len(history_file[1].guesses) >= 2
    /\ Cardinality(DOMAIN guess_buckets(
            Retain(word_source, history.letter_count),
            history.guesses[1])) >= 2
    /\ Len(word_list) >= 1

\* C3: when the word source has a word of the session's length, the
\* candidate list is never empty and every candidate agrees with the reveal
\* pattern: a shown letter is the candidate's letter there, and under a
\* placeholder the candidate has no guessed letter.
C3_Truthful ==
    (Running /\ Retain(word_source, history.letter_count) # << >>) =>
        /\ word_list # << >>
        /\ \A n \in 1..Len(word_list) :
             /\ Len(word_list[n]) = Len(word_info)
             /\ \A i \in 1..Len(word_info) :
                  IF word_info[i] # "_"
                  THEN word_list[n][i] = word_info[i]
                  ELSE ~Contains(history.guesses, word_list[n][i])

\* Two guesses resolved, part of the word shown, several candidates left.
C3_Witness ==
    /\ Running
    /\ Len(history.guesses) >= 2
    /\ Contains(word_info, "_")
    /\ \E i \in 1..Len(word_info) : word_info[i] # "_"
    /\ Len(word_list) >= 2

\* C4: once the reveal pattern of a session has no placeholder the session
\* is in Won and takes no further guess: the history, the history file, the
\* pattern and the candidate list stay as they are.
C4_WonIsTerminal ==
    [][(pc # "NotStarted" /\ ~Contains(word_info, "_")) =>
          /\ pc = "Won"
          /\ history' = history
          /\ history_file' = history_file
          /\ word_info' = word_info
          /\ word_list' = word_list]_vars

\* C5: a position of the reveal pattern that shows a letter shows a letter
\* in every later state, and the pattern is as long as the letter count.
C5_MonotonicReveal ==
    [][pc # "NotStarted" =>
          /\ Len(word_info) = history.letter_count
          /\ Len(word_info') = history'.letter_count
          /\ Len(word_info') = Len(word_info)
          /\ \A i \in 1..Len(word_info) :
                word_info[i] # "_" => word_info'[i] # "_"]_vars

\* A pattern with a letter shown by an earlier guess, after a later guess
\* that showed another letter.
C5_Witness ==
    /\ Running
    /\ Len(history.guesses) >= 2
    /\ \E i, j \in 1..Len(word_info) :
          /\ word_info[i] = history.guesses[1]
          /\ word_info[j] = history.guesses[2]
          /\ word_info[i] # word_info[j]

\* The number of the buckets of b that hold word.
BucketsHolding(b, word) ==
    Cardinality({sig \in DOMAIN b : Contains(b[sig], word)})

RECURSIVE SumOfSizes(_, _)
SumOfSizes(b, keys) ==
    IF keys = {} THEN 0
    ELSE LET sig == CHOOSE x \in keys : TRUE
         IN  Len(b[sig]) + SumOfSizes(b, keys \ {sig})

PartitionComplete(list, guess) ==
    LET b == guess_buckets(list, guess)
    IN  /\ SumOfSizes(b, DOMAIN b) = Len(list)
        /\ \A sig \in DOMAIN b : b[sig] # << >>
        /\ \A n \in 1..Len(list) :
              /\ word_signature(list[n], guess) \in DOMAIN b
              /\ Contains(b[word_signature(list[n], guess)], list[n])
              /\ BucketsHolding(b, list[n]) = 1
        /\ (list = << >> => DOMAIN b = {})

\* C6: for the word source, for the candidate list of every state and for
\* every letter, the buckets of guess_buckets have sizes that sum to the
\* length of the list, none is empty, every word is in the bucket keyed by
\* its own signature and in no other, and an empty list gives no bucket.
C6_PartitionComplete ==
    \A guess \in Letters :
        /\ PartitionComplete(word_list, guess)
        /\ PartitionComplete(word_source, guess)

\* A first guess that split the candidates of the session into several
\* buckets, the chosen one holding several words.
C6_Witness ==
    /\ Running
    /\ Len(history.guesses) = 1
    /\ LET b == guess_buckets(Retain(word_source, history.letter_count),
                              history.guesses[1])
       IN  /\ Cardinality(DOMAIN b) >= 2
           /\ guess_result \in DOMAIN b
           /\ word_list = b[guess_result]
           /\ Len(word_list) >= 2

\* C7: for the candidate list of every state waiting for a guess, every
\* letter, every draw and every iteration order of the bucket map,
\* choose_guess_outcome returns a key of the map, the return after the
\* loop included.
C7_ChoiceIsAKey ==
    (pc = "AwaitingGuess" /\ word_list # << >>) =>
        \A guess \in Letters :
            LET b == guess_buckets(word_list, guess)
            IN  \A U \in 0..(Pow(2, DrawBits) - 1), k \in 0..(HashKeys - 1) :
                    LET c == choose_guess_outcome(b, settings, U, k)
                    IN  ~c.panicked /\ c.value \in DOMAIN b

\* A first guess whose bucket map had several keys and whose walk ran out,
\* so that the last option was returned.
C7_Witness ==
    /\ Running
    /\ fallback
    /\ Len(history.guesses) = 1
    /\ LET b == guess_buckets(Retain(word_source, history.letter_count),
                              history.guesses[1])
       IN  Cardinality(DOMAIN b) >= 2 /\ guess_result \in DOMAIN b

\* C8: for every word w of the word source and every letter g,
\* decode_signature(word_signature(w, g), Len(w)) is Len(w) booleans, the
\* i-th true exactly when the i-th letter of w is g.
C8_SignatureRoundTrip ==
    \A n \in 1..Len(word_source), guess \in Letters :
        LET word == word_source[n]
            bits == decode_signature(word_signature(word, guess), Len(word))
        IN  /\ Len(bits) = Len(word)
            /\ \A i \in 1..Len(word) : bits[i] = (word[i] = guess)

\* A guess resolved to the signature 1 of a word of two letters or more:
\* the guessed letter is the first letter and no other.
C8_Witness ==
    /\ Running
    /\ Len(history.guesses) >= 1
    /\ guess_result = 1
    /\ Len(word_info) >= 2
    /\ word_list # << >>
    /\ word_signature(word_list[1], history.guesses[Len(history.guesses)]) = 1
    /\ word_list[1][1] = history.guesses[Len(history.guesses)]

RECURSIVE IsSubList(_, _)
IsSubList(a, b) ==
    IF a = << >> THEN TRUE
    ELSE IF b = << >> THEN FALSE
    ELSE IF Head(a) = Head(b) THEN IsSubList(Tail(a), Tail(b))
    ELSE IsSubList(a, Tail(b))

\* The history h without its last guess.
ButLast(h) ==
    [h EXCEPT !.guesses = SubSeq(@, 1, Len(@) - 1)]

\* The last guess of replay_history took exactly the bucket of its signature.
LastReplayedTookABucket ==
    (history_file # << >> /\ history_file[1].guesses # << >>) =>
        LET h == history_file[1]
            rng0 == seed_from_u64(BitXor(rng_salt, h.rng_seed))
            prev == replay_history(word_source, ButLast(h), settings, rng0, 0)
            last == replay_history(word_source, h, settings, rng0, 0)
            b == guess_buckets(prev.word_list, h.guesses[Len(h.guesses)])
        IN  /\ last.guess_result \in DOMAIN b
            /\ last.word_list = b[last.guess_result]
            /\ IsSubList(last.word_list, prev.word_list)

\* C9: a resolved guess, live or replayed, leaves as candidate list exactly
\* the bucket of the chosen signature, an order-preserving sub-list of the
\* list before; the list never gets longer and its words have the letter
\* count of the session.
C9_CandidatesOnlyShrink ==
    /\ [](Running => /\ LastReplayedTookABucket
                     /\ \A n \in 1..Len(word_list) :
                           Len(word_list[n]) = history.letter_count)
    /\ [][/\ pc # "NotStarted" => Len(word_list') <= Len(word_list)
          /\ history'.guesses # history.guesses =>
                LET b == guess_buckets(word_list,
                            history'.guesses[Len(history'.guesses)])
                IN  /\ guess_result' \in DOMAIN b
                    /\ word_list' = b[guess_result']
                    /\ IsSubList(word_list', word_list)]_vars

\* Two guesses resolved, each of which dropped candidates.
C9_Witness ==
    /\ Running
    /\ Len(history.guesses) = 2
    /\ LET first == replay_history(word_source, ButLast(history), settings,
                       seed_from_u64(BitXor(rng_salt, history.rng_seed)), 0)
       IN  /\ Len(first.word_list) <
                Len(Retain(word_source, history.letter_count))
           /\ Len(word_list) < Len(first.word_list)
           /\ Len(word_list) >= 1

\* C10: the history file changes only by a save that keeps the seed and the
\* letter count and appends one letter to the guess list (a new file holds
\* no guess); every resolved live guess is such a save, and after every
\* save the file holds the History of play_game.
C10_AppendOnlyHistory ==
    /\ [](Running => history_file = <<history>>)
    /\ [][/\ history_file' # history_file =>
                /\ history_file' # << >>
                /\ IF history_file = << >>
                   THEN history_file'[1].guesses = << >>
                   ELSE \E guess \in Letters :
                          history_file'[1] =
                            [history_file[1] EXCEPT
                                !.guesses = Append(@, guess)]
          /\ history'.guesses # history.guesses =>
                /\ history_file # << >>
                /\ history_file' # << >>
                /\ history_file'[1].rng_seed = history_file[1].rng_seed
                /\ history_file'[1].letter_count =
                      history_file[1].letter_count
                /\ history_file'[1].guesses =
                      Append(history_file[1].guesses,
                             history'.guesses[Len(history'.guesses)])]_vars

\* A file of two different guesses, equal to the History in memory.
C10_Witness ==
    /\ Running
    /\ history_file = <<history>>
    /\ history_file # << >>
    /\ Len(history_file[1].guesses) = 2
    /\ history_file[1].guesses[1] # history_file[1].guesses[2]

\* ---- The word source (main.rs) ----

\* The lines a file holds at most.
MaxLines == 2

\* The byte of a character.
Byte(c) ==
    CASE c = "1" -> 49 [] c = "A" -> 65 [] c = "B" -> 66 [] c = "C" -> 67
      [] c = "a" -> 97 [] c = "b" -> 98

\* alphabetic_regex.is_match(line): ^[a-zA-Z]+$
is_match(line) ==
    /\ line # << >>
    /\ \A i \in 1..Len(line) : line[i] \in {"A", "B", "a", "b"}

to_uppercase(line) ==
    [i \in 1..Len(line) |->
        CASE line[i] = "a" -> "A" [] line[i] = "b" -> "B" [] OTHER -> line[i]]

\* String ordering: byte by byte, a prefix first.
RECURSIVE StringLess(_, _)
StringLess(a, b) ==
    IF b = << >> THEN FALSE
    ELSE IF a = << >> THEN TRUE
    ELSE IF Byte(Head(a)) # Byte(Head(b)) THEN Byte(Head(a)) < Byte(Head(b))
    ELSE StringLess(Tail(a), Tail(b))

RECURSIVE InsertWord(_, _)
InsertWord(sorted, w) ==
    IF sorted = << >> THEN <<w>>
    ELSE IF StringLess(w, Head(sorted)) THEN <<w>> \o sorted
    ELSE <<Head(sorted)>> \o InsertWord(Tail(sorted), w)

\* words.sort()
RECURSIVE sort(_)
sort(words) ==
    IF words = << >> THEN << >>
    ELSE InsertWord(sort(Tail(words)), Head(words))

\* words.dedup(): consecutive repeats removed.
RECURSIVE dedup(_)
dedup(words) ==
    IF Len(words) < 2 THEN words
    ELSE IF words[1] = words[2] THEN dedup(Tail(words))
    ELSE <<Head(words)>> \o dedup(Tail(words))

\* The loop over words_content.lines().
RECURSIVE read_word_list_loop(_, _, _, _)
read_word_list_loop(lines, exclusions, i, words) ==
    IF i > Len(lines) THEN words
    ELSE LET word == lines[i]
         IN  read_word_list_loop(lines, exclusions, i + 1,
                 IF ~is_match(word) THEN words
                 ELSE IF \E n \in 1..Len(exclusions) : exclusions[n] = word
                 THEN words
                 ELSE Append(words, to_uppercase(word)))

\* read_word_list(word_path, exclusions_path) over the files fs.
read_word_list(fs, word_path, exclusions_path) ==
    LET exclusions == SelectSeq(fs[exclusions_path], is_match)
        words == read_word_list_loop(fs[word_path], exclusions, 1, << >>)
    IN  dedup(sort(words))

\* main: the word list it hands to play_game.
main_word_list(fs) == read_word_list(fs, "word_list_path", "word_list_path")

FileLines ==
    {<<"a">>, <<"A">>, <<"b">>, <<"B", "a">>, <<"a", "1">>, << >>}

Files == UNION {[1..n -> FileLines] : n \in 0..MaxLines}

\* ---- Functions called on their own ----

\* The game's variables while a function is exercised on its own.
Idle ==
    /\ word_source = << >>
    /\ settings = [evil_exponent |-> 1, evil_factor |-> <<2, 1>>]
    /\ rng_salt = 1
    /\ history_file = << >>
    /\ history = initialize_game(0, 0)
    /\ word_list = << >>
    /\ word_info = << >>
    /\ rng = seed_from_u64(0)
    /\ guess_result = 0
    /\ fallback = FALSE
    /\ replayed = 0

game_vars == <<word_source, settings, rng_salt, history_file, history,
               word_list, word_info, rng, guess_result, fallback, replayed>>

\* Words of len letters, guess "A" at the marked positions, "B" elsewhere.
MarkedWord(len, marks) == [i \in 1..len |-> IF i \in marks THEN "A" ELSE "B"]

\* Word lengths around the width of the signature.
WideLens == (SigWidth - 2)..(SigWidth + 2)

WideWords ==
    {MarkedWord(len, marks \cap 1..len) :
        len \in WideLens,
        marks \in {{}, {1}, {SigWidth}, {SigWidth + 1}, {SigWidth + 2},
                   {1, SigWidth + 1}, {2, SigWidth - 1, SigWidth + 2},
                   1..(SigWidth + 2)}}

word_signature_calls ==
    [op : {"word_signature"}, word : WideWords, guess : Letters,
     overflow_checks : BOOLEAN]

\* word_signature(word, guess), in a build with or without overflow checks.
CallWordSignature ==
    /\ pc = "Called"
    /\ call.op = "word_signature"
    /\ ret' = word_signature_u64(call.word, call.guess, call.overflow_checks)
    /\ pc' = "Returned"
    /\ UNCHANGED <<game_vars, call>>

\* Every pattern of num_letters letters and placeholders.
Patterns(num_letters) == [1..num_letters -> Letters \cup {"_"}]

display_signature_calls ==
    [op : {"display_signature"},
     sig : 0..(Pow(2, MaxLen + 1) - 1),
     prev_info : UNION {Patterns(n) : n \in 0..MaxLen},
     guess : Letters]

\* display_signature(sig, prev_info, guess)
CallDisplaySignature ==
    /\ pc = "Called"
    /\ call.op = "display_signature"
    /\ ret' = display_signature(call.sig, call.prev_info, call.guess)
    /\ pc' = "Returned"
    /\ UNCHANGED <<game_vars, call>>

\* The buckets of the worked example: CAT, COT, CAR, CAB split on "A".
ExampleBuckets ==
    (2 :> <<(<<"C", "A", "T">>), (<<"C", "A", "R">>), (<<"C", "A", "B">>)>>)
        @@ (0 :> <<(<<"C", "O", "T">>)>>)

\* Bucket maps guess_buckets builds, and the one of the example.
ChoiceBuckets ==
    {ExampleBuckets} \cup
    {b \in {guess_buckets(Retain(src, n), g) :
                src \in WordSources, n \in LetterCounts, g \in Letters} :
        DOMAIN b # {}}

\* Settings with positive, finite parameters.
ChoiceSettings ==
    {s \in SettingsFiles : s.evil_factor[2] # 0}
        \cup {[evil_exponent |-> 1, evil_factor |-> <<1, 2>>],
              [evil_exponent |-> 2, evil_factor |-> <<4, 1>>]}

choose_guess_outcome_calls ==
    [op : {"choose_guess_outcome"},
     buckets : ChoiceBuckets,
     settings : ChoiceSettings,
     U : 0..(Pow(2, DrawBits) - 1),
     k : 0..(HashKeys - 1)]

\* choose_guess_outcome(buckets, settings, rng), the generator drawing U and
\* the map iterating by hash key k.
CallChooseGuessOutcome ==
    /\ pc = "Called"
    /\ call.op = "choose_guess_outcome"
    /\ ret' = choose_guess_outcome(call.buckets, call.settings, call.U, call.k)
    /\ pc' = "Returned"
    /\ UNCHANGED <<game_vars, call>>

main_calls ==
    [op : {"main"},
     fs : [{"word_list_path", "exclusions_list_path"} -> Files]]

\* main up to its call of play_game.
CallMain ==
    /\ pc = "Called"
    /\ call.op = "main"
    /\ ret' = main_word_list(call.fs)
    /\ pc' = "Returned"
    /\ UNCHANGED <<game_vars, call>>

\* Word lists in any order, as play_game may be handed.
ListWords ==
    {<<"A">>, <<"A", "B">>, <<"B", "A">>, <<"B", "B">>, <<"C", "A">>,
     <<"C", "B">>}

WordLists == UNION {[1..n -> ListWords] : n \in 0..MaxLen}

guess_buckets_calls == [op : {"guess_buckets"}, word_list : WordLists, guess : Letters]

\* guess_buckets(word_list, guess)
CallGuessBuckets ==
    /\ pc = "Called"
    /\ call.op = "guess_buckets"
    /\ ret' = guess_buckets(call.word_list, call.guess)
    /\ pc' = "Returned"
    /\ UNCHANGED <<game_vars, call>>

retain_calls == [op : {"retain"}, word_list : WordLists, letter_count : LetterCounts]

\* replay_history's word_list.retain(|word| word.len() == letter_count)
CallRetain ==
    /\ pc = "Called"
    /\ call.op = "retain"
    /\ ret' = Retain(call.word_list, call.letter_count)
    /\ pc' = "Returned"
    /\ UNCHANGED <<game_vars, call>>

InitCalls ==
    /\ Idle
    /\ pc = "Called"
    /\ ret = << >>
    /\ \/ call \in word_signature_calls
       \/ call \in display_signature_calls
       \/ call \in choose_guess_outcome_calls
       \/ call \in main_calls
       \/ call \in guess_buckets_calls
       \/ call \in retain_calls

NextCalls ==
    \/ CallWordSignature
    \/ CallDisplaySignature
    \/ CallChooseGuessOutcome
    \/ CallMain
    \/ CallGuessBuckets
    \/ CallRetain

SpecCalls == InitCalls /\ [][NextCalls]_vars

\* ---- Claims, continued ----

\* C11: with no candidate word, do_guess yields no outcome for any letter,
\* draw and iteration order (weighted_choice panics), and the only step a
\* session waiting for a guess can take ends it in a panic with the history,
\* the history file, the pattern and the candidate list as they were.
C11_EmptyCandidatesPanic ==
    /\ []((pc = "AwaitingGuess" /\ word_list = << >>) =>
            \A guess \in Letters, U \in 0..(Pow(2, DrawBits) - 1),
               k \in 0..(HashKeys - 1) :
                do_guess(guess, word_list, settings, U, k).panicked)
    /\ [][(pc = "AwaitingGuess" /\ word_list = << >>) =>
            /\ pc' = "Panicked"
            /\ history' = history
            /\ history_file' = history_file
            /\ word_info' = word_info
            /\ word_list' = word_list]_vars

\* A session that panicked on its first guess: no word of the source has
\* the letter count, and the file still holds the empty guess list.
C11_Witness ==
    /\ pc = "Panicked"
    /\ word_list = << >>
    /\ Retain(word_source, history.letter_count) = << >>
    /\ history.guesses = << >>
    /\ history_file = <<history>>
    /\ rng.pos = 1

\* C12: word_signature fails, returning no signature, for every word longer
\* than the signature is wide and every guessed letter.
C12_OverlongWordFails ==
    (pc = "Returned" /\ call.op = "word_signature"
        /\ Len(call.word) > SigWidth) => ret.panicked

\* C13: rendering is idempotent: display_signature applied to its own output
\* with the same signature and letter returns that output; and it leaves
\* every position whose bit of the signature is clear as it was.
C13_RenderIdempotent ==
    (pc = "Returned" /\ call.op = "display_signature") =>
        /\ display_signature(call.sig, ret, call.guess) = ret
        /\ Len(ret) = Len(call.prev_info)
        /\ \A i \in 1..Len(call.prev_info) :
              (call.sig \div Pow(2, i - 1)) % 2 = 0 => ret[i] = call.prev_info[i]

\* A rendering that wrote the letter somewhere and kept both an earlier
\* letter and a placeholder where the bits are clear.
C13_Witness ==
    /\ pc = "Returned"
    /\ call.op = "display_signature"
    /\ ret # call.prev_info
    /\ \E i, j \in 1..Len(ret) :
          /\ (call.sig \div Pow(2, i - 1)) % 2 = 0
          /\ (call.sig \div Pow(2, j - 1)) % 2 = 0
          /\ ret[i] = "_"
          /\ ret[j] \in Letters \ {call.guess}

\* The selection walk, stated over the set of signatures.
PopCount(sig) ==
    Cardinality({i \in 0..MaxLen : (sig \div Pow(2, i)) % 2 = 1})

WalkWeight(c, s) ==
    F64Div(<<Pow(Len(c.buckets[s]), c.settings.evil_exponent), 1>>,
           F64PowI(c.settings.evil_factor, PopCount(s)))

WalkBefore(c, s, t) ==
    \/ F64Less(WalkWeight(c, s), WalkWeight(c, t))
    \/ F64Eq(WalkWeight(c, s), WalkWeight(c, t)) /\ s < t

RECURSIVE WalkSum(_, _)
WalkSum(c, sigs) ==
    IF sigs = {} THEN <<0, 1>>
    ELSE LET s == CHOOSE x \in sigs : TRUE
         IN  F64Add(WalkWeight(c, s), WalkSum(c, sigs \ {s}))

WalkCumulative(c, s) ==
    WalkSum(c, {t \in DOMAIN c.buckets : t = s \/ WalkBefore(c, t, s)})

WalkExceeds(c, s) ==
    F64Less(F64Mul(<<c.U, Pow(2, DrawBits)>>, WalkSum(c, DOMAIN c.buckets)),
            WalkCumulative(c, s))

\* C14: with weight(s) = n^evil_exponent / evil_factor^count_matches(s) and
\* the signatures ordered ascending by (weight, signature),
\* choose_guess_outcome returns for the draw u the first signature whose
\* cumulative weight exceeds u * total weight; for the buckets
\* {0b010: [CAT, CAR, CAB], 0b000: [COT]}, exponent 1, factor 2 and u = 0.5
\* that is 0b010.
C14_SelectionWalk ==
    (pc = "Returned" /\ call.op = "choose_guess_outcome") =>
        /\ ~ret.panicked
        /\ ret.value \in DOMAIN call.buckets
        /\ WalkExceeds(call, ret.value)
        /\ \A t \in DOMAIN call.buckets :
              WalkBefore(call, t, ret.value) => ~WalkExceeds(call, t)
        /\ (/\ call.buckets = ExampleBuckets
            /\ call.settings = [evil_exponent |-> 1, evil_factor |-> <<2, 1>>]
            /\ 2 * call.U = Pow(2, DrawBits)) => ret.value = 2

\* The worked example: the walk passes 0b000 (weight 1) and stops at 0b010
\* (weight 1.5) for the dart 1.25.
C14_Witness ==
    /\ pc = "Returned"
    /\ call.op = "choose_guess_outcome"
    /\ call.buckets = ExampleBuckets
    /\ call.settings = [evil_exponent |-> 1, evil_factor |-> <<2, 1>>]
    /\ 2 * call.U = Pow(2, DrawBits)
    /\ ret.value = 2
    /\ WalkBefore(call, 0, 2)
    /\ ~WalkExceeds(call, 0)

\* C15: the word list main hands to play_game holds exactly the alphabetic
\* lines of the word file that are no line of the exclusions file,
\* uppercased, in ascending order without repeats; so a word of the word
\* file that the exclusions file lacks is in it.
C15_WordSourceLoaded ==
    (pc = "Returned" /\ call.op = "main") =>
        LET word_lines == call.fs["word_list_path"]
            excluded == {call.fs["exclusions_list_path"][n] :
                            n \in 1..Len(call.fs["exclusions_list_path"])}
            kept == {to_uppercase(word_lines[n]) :
                        n \in {m \in 1..Len(word_lines) :
                                  /\ is_match(word_lines[m])
                                  /\ word_lines[m] \notin excluded}}
        IN  /\ {ret[n] : n \in 1..Len(ret)} = kept
            /\ \A n \in 1..(Len(ret) - 1) : StringLess(ret[n], ret[n + 1])

\* C16: the words of every bucket guess_buckets builds stand in the order
\* they have in its input, and the list replay_history's length filter keeps
\* stands in the order of the word source.
C16_OrderPreserved ==
    /\ (pc = "Returned" /\ call.op = "guess_buckets") =>
          \A sig \in DOMAIN ret : IsSubList(ret[sig], call.word_list)
    /\ (pc = "Returned" /\ call.op = "retain") =>
          IsSubList(ret, call.word_list)

\* A bucket of two different words taken from an input that is not sorted.
C16_Witness ==
    /\ pc = "Returned"
    /\ call.op = "guess_buckets"
    /\ call.word_list # sort(call.word_list)
    /\ \E sig \in DOMAIN ret :
          /\ Len(ret[sig]) = 2
          /\ ret[sig][1] # ret[sig][2]
          /\ ret[sig] # sort(ret[sig])

\* C17: guessing a letter again changes nothing of the position: for every
\* draw (and iteration order) do_guess keeps the whole candidate list and
\* renders the pattern as it is, and the step play_game takes only appends
\* the letter to the history and advances the generator by one draw.
C17_ReguessIsNoOp ==
    /\ []((pc = "AwaitingGuess" /\ word_list # << >>) =>
            \A guess \in Guessed :
                LET buckets == guess_buckets(word_list, guess)
                IN  \A U \in 0..(Pow(2, DrawBits) - 1), k \in 0..(HashKeys - 1) :
                        LET c == choose_guess_outcome(buckets, settings, U, k)
                        IN  /\ ~c.panicked
                            /\ buckets[c.value] = word_list
                            /\ display_signature(c.value, word_info, guess)
                                  = word_info)
    /\ [][(/\ Len(history'.guesses) = Len(history.guesses) + 1
           /\ history'.guesses[Len(history'.guesses)] \in Guessed) =>
            /\ word_info' = word_info
            /\ word_list' = word_list
            /\ history' = [history EXCEPT
                              !.guesses = Append(@, history'.guesses[Len(@) + 1])]
            /\ rng' = [rng EXCEPT !.pos = @ + 1]]_vars

\* A letter of the word guessed twice in a row, with candidates to choose
\* among and the word not yet complete.
C17_Witness ==
    /\ pc = "AwaitingGuess"
    /\ Len(history.guesses) = 2
    /\ history.guesses[1] = history.guesses[2]
    /\ Contains(word_info, history.guesses[1])
    /\ Contains(word_info, "_")
    /\ Len(word_list) >= 2
    /\ rng.pos = 2

\* C18: in a session whose candidate set was not empty at its start (the
\* word source holds no word twice), once the pattern shows no placeholder
\* the candidate list holds exactly one word, that word is the pattern, and
\* it is a word of the word source.
C18_WinningWordIsReal ==
    (/\ Running
     /\ Retain(word_source, history.letter_count) # << >>
     /\ ~Contains(word_info, "_")) =>
        /\ word_list = <<word_info>>
        /\ \E n \in 1..Len(word_source) : word_source[n] = word_info

\* A win among several candidate words of two letters or more.
C18_Witness ==
    /\ pc = "Won"
    /\ Len(Retain(word_source, history.letter_count)) >= 2
    /\ Len(word_info) >= 2
    /\ word_list = <<word_info>>
    /\ ~Contains(word_info, "_")

\* The letters occurring in the candidate words.
CandidateLetters ==
    UNION {{word_list[n][i] : i \in 1..Len(word_list[n])} :
              n \in 1..Len(word_list)}

\* C19: with a candidate list that is not empty, a state whose history
\* holds every letter of the candidate words shows no placeholder; so when
\* the player sooner or later types every letter, a session waiting with
\* placeholders left reaches Won, having needed no more distinct letters
\* than the alphabet holds.
C19_AlphabetExhaustedWins ==
    /\ []((Running /\ word_list # << >> /\ CandidateLetters \subseteq Guessed)
            => ~Contains(word_info, "_"))
    /\ (pc = "AwaitingGuess" /\ word_list # << >> /\ Contains(word_info, "_"))
          ~> (pc = "Won")

\* A win that took every letter of the alphabet.
C19_Witness ==
    /\ pc = "Won"
    /\ word_list # << >>
    /\ CandidateLetters \subseteq Guessed
    /\ Guessed = Letters
    /\ Len(history.guesses) > Cardinality(Letters)

====
